---- MODULE Spec2Model ----
(***************************************************************************)
(* Model of the TechLead planning loop of ask_dbx                          *)
(* (src/src/ask_dbx/agents/tech_lead.py, analyze_job_requirements).        *)
(*                                                                         *)
(* The LangGraph graph is a state machine over one mutable dict.  pc names *)
(* the node (or conditional edge) that runs next.  The chat model and the  *)
(* retriever are external services: every value they can return is drawn   *)
(* with \E from small sets, and any call to them may raise.                *)
(*                                                                         *)
(* state["docs"] is an insertion-ordered dict: it is a sequence of records *)
(* whose ids are pairwise distinct.  Python's None is the string "None".   *)
(***************************************************************************)
EXTENDS Integers, Sequences, FiniteSets, TLC

VARIABLES pc, job_requirements, docs, plan, verification, rating,
          retrieve_decision, iteration, done, search_query, batch,
          call, error, task, judged_irrelevant, verified, fanout

\* Worker.process_task, StateDatabase and MarkdownManager
\* (agents/worker.py, integrations/state_db.py, integrations/markdown_manager.py)
VARIABLES w_pc, w_task, w_valid, w_plan, w_step, w_count, db, log, calls

\* UnityCatalogToolkit._choose_preferred_versions (tools/unitycatalog_toolkit.py)
VARIABLES uc_pc, uc_functions, uc_result

\* UnityCatalogToolkit._expand_function_names: its argument and the exception
\* it was left by
VARIABLES uc_names, uc_error

\* UnityCatalogToolkit.get_tool and invoke_tool: _tool_cache, the tool handed
\* out by the last request, that request, and per tool name the numbers of
\* requests, of tools built and of client.get_function calls
VARIABLES uc_cache, uc_tool, uc_request, uc_asked, uc_builds, uc_lookups

leadVars == <<pc, job_requirements, docs, plan, verification, rating,
              retrieve_decision, iteration, done, search_query, batch,
              call, error, task, judged_irrelevant, verified, fanout>>

workerVars == <<w_pc, w_task, w_valid, w_plan, w_step, w_count, db, log, calls>>

expandVars == <<uc_names, uc_error>>

cacheVars == <<uc_cache, uc_tool, uc_request, uc_asked, uc_builds, uc_lookups>>

toolVars == <<uc_pc, uc_functions, uc_result, expandVars, cacheVars>>

vars == <<leadVars, workerVars, toolVars>>

(* ------------------------------ bounds -------------------------------- *)

\* number of distinct chunk ids the vector index can return
NumDocIds == 2

\* chain.batch may return up to this many results more than it was given inputs
MaxExtra == 1

\* task ids the Worker is given
MaxTaskId == 2

\* number of process_task calls of one Worker
MaxTasks == 2

\* number of update_task_state calls made on one state database
MaxCalls == 3

\* length of the function list given to _choose_preferred_versions
MaxFuncs == 3

\* how many times "_sql" can be repeated at the end of a function name
MaxSuffix == 2

\* longest list of specifications given to _expand_function_names
MaxNames == 2

\* number of get_tool and invoke_tool calls on one toolkit
MaxRequests == 3

(* ------------------------- program constants -------------------------- *)

MAX_ITERATIONS == 5

\* k of retriever.get_relevant_documents
K == 10

RatingMin == 1

RatingMax == 5

AcceptRating == 4

DocIds == 1..NumDocIds

\* free text returned by the chat model (summarize_chain, plan_chain)
Queries == {"q1"}

PlanTexts == {"p1", "p2"}

Requirements == {"reqs"}

Decisions == {"yes", "no"}

FilterValues == {"relevant", "irrelevant"}

VerifyValues == {"fully supported", "partially supported", "no support"}

Min(a, b) == IF a < b THEN a ELSE b

(* --------------------------- pure helpers ----------------------------- *)

\* the record retrieve_docs stores for a chunk
NewDoc(id) == [id |-> id, filter_score |-> "None", verify_score |-> "None"]

HasId(d, id) == \E i \in DOMAIN d : d[i].id = id

\* state["docs"][id] = {...}: a present key keeps its position and gets the
\* new value, an absent key is appended
DictSet(d, id) ==
    IF HasId(d, id)
    THEN [i \in DOMAIN d |-> IF d[i].id = id THEN NewDoc(id) ELSE d[i]]
    ELSE Append(d, NewDoc(id))

\* variant: the retrieved chunks replace the dict
StoreChunks_replace(d, chunks) == [i \in DOMAIN chunks |-> NewDoc(chunks[i])]

\* the for-loop of retrieve_docs over doc_chunks
RECURSIVE StoreChunks(_, _)
StoreChunks(d, chunks) ==
    IF chunks = <<>> THEN d
    ELSE StoreChunks(DictSet(d, Head(chunks)), Tail(chunks))

\* what the retriever can return: at most K chunks, distinct ids
ChunkLists ==
    UNION { { s \in [1..n -> DocIds] : \A i, j \in 1..n : i # j => s[i] # s[j] }
            : n \in 0..Min(K, NumDocIds) }

\* variant: every doc is taken as still to be scored
IsUnscored_always(rec, field) == rec[field] = rec[field]

\* if doc_info[field] is None
IsUnscored(rec, field) == rec[field] = "None"

\* ids of the docs whose score field is still None, in dict order
UnscoredIds(d, field) ==
    LET u == SelectSeq(d, LAMBDA rec : IsUnscored(rec, field))
    IN  [i \in DOMAIN u |-> u[i].id]

\* index of id in the list ids (0 when absent)
IndexOf(ids, id) ==
    IF \E i \in DOMAIN ids : ids[i] = id
    THEN CHOOSE i \in DOMAIN ids : ids[i] = id
    ELSE 0

\* variant: the i-th result goes to the i-th doc of the dict
ZipWrite_by_position(d, field, ids, responses) ==
    [i \in DOMAIN d |->
        IF IndexOf(ids, d[i].id) # 0 /\ i <= Len(responses)
        THEN [d[i] EXCEPT ![field] = responses[i]]
        ELSE d[i]]

\* for doc_id, response in zip(ids, responses): docs[doc_id][field] = response
ZipWrite(d, field, ids, responses) ==
    [i \in DOMAIN d |->
        LET k == IndexOf(ids, d[i].id)
        IN  IF k # 0 /\ k <= Len(responses)
            THEN [d[i] EXCEPT ![field] = responses[k]]
            ELSE d[i]]

\* what chain.batch can return for n inputs, as far as zip reads it: zip stops
\* at the shorter list, so of a longer result only the first n items count
BatchResponses(n, values) ==
    UNION { [1..m -> values] : m \in 0..n }

\* how many items chain.batch returned, given the part zip reads
ResultCounts(n, responses) ==
    IF Len(responses) < n THEN {Len(responses)} ELSE n..(n + MaxExtra)

\* the aggregation of verify_plan_support over [info["verify_score"] ...]:
\* any() stops at the first "no support"; a None met before that raises
\* TypeError ("no support" in None)
FirstIdx(v, x) ==
    IF \E i \in DOMAIN v : v[i] = x
    THEN CHOOSE i \in DOMAIN v : v[i] = x /\ \A j \in 1..(i-1) : v[j] # x
    ELSE Len(v) + 1

\* variant: the "verifications and" guard of the elif is dropped
Overall_no_empty_guard(v) ==
    LET firstNo   == FirstIdx(v, "no support")
        firstNone == FirstIdx(v, "None")
    IN  IF firstNone < firstNo THEN "TypeError"
        ELSE IF firstNo <= Len(v) THEN "partially supported"
        ELSE IF \A i \in DOMAIN v : v[i] = "fully supported"
             THEN "fully supported"
        ELSE "partially supported"

\* variant: one fully supported doc is enough
Overall_any_fully(v) ==
    LET firstNo   == FirstIdx(v, "no support")
        firstNone == FirstIdx(v, "None")
    IN  IF firstNone < firstNo THEN "TypeError"
        ELSE IF firstNo <= Len(v) THEN "partially supported"
        ELSE IF \E i \in DOMAIN v : v[i] = "fully supported"
             THEN "fully supported"
        ELSE "partially supported"

\* variant: a doc without support makes the overall verification "no support"
Overall_reports_no_support(v) ==
    LET firstNo   == FirstIdx(v, "no support")
        firstNone == FirstIdx(v, "None")
    IN  IF firstNone < firstNo THEN "TypeError"
        ELSE IF firstNo <= Len(v) THEN "no support"
        ELSE IF v # <<>> /\ \A i \in DOMAIN v : v[i] = "fully supported"
             THEN "fully supported"
        ELSE "partially supported"

Overall(v) ==
    LET firstNo   == FirstIdx(v, "no support")
        firstNone == FirstIdx(v, "None")
    IN  IF firstNone < firstNo THEN "TypeError"
        ELSE IF firstNo <= Len(v) THEN "partially supported"
        ELSE IF v # <<>> /\ \A i \in DOMAIN v : v[i] = "fully supported"
             THEN "fully supported"
        ELSE "partially supported"

VerifyScores(d) == [i \in DOMAIN d |-> d[i].verify_score]

\* variant: nothing is removed
Retained_all(d) == SelectSeq(d, LAMBDA rec : TRUE)

\* variant: only the docs scored "irrelevant" are removed
Retained_not_irrelevant(d) ==
    SelectSeq(d, LAMBDA rec : rec.filter_score # "irrelevant")

\* the dict comprehension of filter_docs
Retained(d) == SelectSeq(d, LAMBDA rec : rec.filter_score = "relevant")

\* ids that filter_chain scored "irrelevant" in this batch
ScoredIrrelevant(d, responses) ==
    LET ids == UnscoredIds(d, "filter_score")
    IN  { ids[k] : k \in { j \in DOMAIN ids :
                              j <= Len(responses) /\ responses[j] = "irrelevant" } }

\* docs after filter_docs, given what filter_chain.batch returned
FilterResult(d, responses) ==
    Retained(ZipWrite(d, "filter_score", UnscoredIds(d, "filter_score"), responses))

\* variant: the edge out of filter_docs skips generate_plan
Edge_skip_plan(node) ==
    CASE node = "summarize_question"  -> "retrieve_docs"
      [] node = "retrieve_docs"       -> "filter_docs"
      [] node = "filter_docs"         -> "verify_plan_support"
      [] node = "generate_plan"       -> "verify_plan_support"
      [] node = "verify_plan_support" -> "rate_plan"
      [] node = "rate_plan"           -> "decide_retrieve"
      [] node = "decide_retrieve"     -> "branch_decide"

\* graph.add_edge(...), and the conditional edge out of decide_retrieve
Edge(node) ==
    CASE node = "summarize_question"  -> "retrieve_docs"
      [] node = "retrieve_docs"       -> "filter_docs"
      [] node = "filter_docs"         -> "generate_plan"
      [] node = "generate_plan"       -> "verify_plan_support"
      [] node = "verify_plan_support" -> "rate_plan"
      [] node = "rate_plan"           -> "decide_retrieve"
      [] node = "decide_retrieve"     -> "branch_decide"

Nodes == {"summarize_question", "retrieve_docs", "filter_docs", "generate_plan",
          "verify_plan_support", "rate_plan", "decide_retrieve"}

\* the last chain.batch call: node, number of inputs, number of results
NoBatch == [node |-> "none", nin |-> 0, nres |-> 0]

\* the calls of a chain.batch under way: the ids submitted, in input order, and
\* the calls that have returned, in the order they returned
NoFanout == [node |-> "none", ids |-> <<>>, completed |-> <<>>]

\* the last chain.invoke / retriever call: its target and its arguments
NoCall == [target |-> "none", args |-> <<>>]

\* d.page_content of the chunk with this id
PageContent(id) == <<"content", id>>

RefineClause == " | Additional info needed to refine plan: "

\* variant: the refinement clause is appended from the first iteration on
BuildQuery_always_refine(it, base_query, p) ==
    IF it > 0 THEN <<base_query, RefineClause, p>> ELSE <<base_query>>

\* the query of retrieve_docs; a text is the sequence of its parts
BuildQuery(it, base_query, p) ==
    IF it > 1 THEN <<base_query, RefineClause, p>> ELSE <<base_query>>

\* variant: an empty docs gives an empty context
DocsText_no_placeholder(d) == [i \in DOMAIN d |-> PageContent(d[i].id)]

\* docs_text of generate_plan and documentation of the final Task: the page
\* contents joined in dict order; a text is the sequence of its lines
JoinContents(d) == [i \in DOMAIN d |-> PageContent(d[i].id)]

DocsText(d) ==
    IF d # <<>> THEN JoinContents(d) ELSE <<"No documentation available.">>

\* models.Task: the fields without a default
TaskRequired == {"objective", "steps"}

\* the keyword arguments of Task(...) in analyze_job_requirements
TaskKwargs == {"id", "details", "documentation", "state"}

\* Task(id=1, details=plan, documentation=..., state="PENDING")
FinalTask(p, d) ==
    [id |-> 1, details |-> p, documentation |-> JoinContents(d),
     state |-> "PENDING"]

(* ------------------------------ actions ------------------------------- *)

\* initial_state, for the text read from job_requirements_path
InitState(requirements) ==
    /\ pc = "summarize_question"
    /\ job_requirements = requirements
    /\ docs = <<>>
    /\ plan = ""
    /\ verification = ""
    /\ rating = 0
    /\ retrieve_decision = ""
    /\ iteration = 0
    /\ done = FALSE
    /\ search_query = ""
    /\ batch = NoBatch
    /\ call = NoCall
    /\ error = "none"
    /\ task = "None"
    /\ judged_irrelevant = {}
    /\ verified = {}
    /\ fanout = NoFanout

\* no Worker has been given a task
WorkerIdle ==
    /\ w_pc = "idle"
    /\ w_task = "None"
    /\ w_valid = "None"
    /\ w_plan = <<>>
    /\ w_step = 0
    /\ w_count = 0
    /\ db = {}
    /\ log = <<>>
    /\ calls = <<>>

NoRequest == [op |-> "none", name |-> "None"]

\* _expand_function_names has not been called
ExpandIdle ==
    /\ uc_names = <<>>
    /\ uc_error = "none"

\* the toolkit has no _tool_cache attribute yet and no tool was requested
CacheIdle ==
    /\ uc_cache = {}
    /\ uc_tool = 0
    /\ uc_request = NoRequest
    /\ uc_asked = <<>>
    /\ uc_builds = <<>>
    /\ uc_lookups = <<>>

\* no toolkit call is under way
ToolIdle ==
    /\ uc_pc = "idle"
    /\ uc_functions = <<>>
    /\ uc_result = "None"
    /\ ExpandIdle
    /\ CacheIdle

Init ==
    /\ \E requirements \in Requirements : InitState(requirements)
    /\ WorkerIdle
    /\ ToolIdle

\* the requirements file is empty
InitEmpty ==
    /\ InitState("")
    /\ WorkerIdle
    /\ ToolIdle

summarize_question ==
    /\ pc = "summarize_question"
    /\ call' = [target |-> "summarize_chain", args |-> <<job_requirements, plan>>]
    /\ \E q \in Queries : search_query' = q
    /\ pc' = Edge(pc)
    /\ UNCHANGED <<job_requirements, docs, plan, verification, rating,
                   retrieve_decision, iteration, done, batch, error, task, judged_irrelevant,
                   verified, fanout, workerVars, toolVars>>

\* variant: the incremented iteration is not stored
retrieve_docs_no_increment ==
    /\ pc = "retrieve_docs"
    /\ iteration' = iteration
    /\ call' = [target |-> "retriever",
                args |-> <<BuildQuery(iteration + 1, search_query, plan), K, "hybrid">>]
    /\ \E chunks \in ChunkLists : docs' = StoreChunks(docs, chunks)
    /\ pc' = Edge(pc)
    /\ UNCHANGED <<job_requirements, plan, verification, rating,
                   retrieve_decision, done, search_query, batch, error, task,
                   judged_irrelevant,
                   verified, fanout, workerVars, toolVars>>

\* variant: the counter is not read back from the state
retrieve_docs_restart ==
    /\ pc = "retrieve_docs"
    /\ iteration' = 1
    /\ call' = [target |-> "retriever",
                args |-> <<BuildQuery(iteration + 1, search_query, plan), K, "hybrid">>]
    /\ \E chunks \in ChunkLists : docs' = StoreChunks(docs, chunks)
    /\ pc' = Edge(pc)
    /\ UNCHANGED <<job_requirements, plan, verification, rating,
                   retrieve_decision, done, search_query, batch, error, task,
                   judged_irrelevant,
                   verified, fanout, workerVars, toolVars>>

retrieve_docs ==
    /\ pc = "retrieve_docs"
    /\ iteration' = iteration + 1
    /\ call' = [target |-> "retriever",
                args |-> <<BuildQuery(iteration + 1, search_query, plan), K, "hybrid">>]
    /\ \E chunks \in ChunkLists : docs' = StoreChunks(docs, chunks)
    /\ pc' = Edge(pc)
    /\ UNCHANGED <<job_requirements, plan, verification, rating,
                   retrieve_decision, done, search_query, batch, error, task, judged_irrelevant,
                   verified, fanout, workerVars, toolVars>>

\* filter_docs; judged_irrelevant is a history of the ids scored "irrelevant",
\* which the program does not keep: it is recorded only when track is TRUE
filter_docs_with(track) ==
    /\ pc = "filter_docs"
    /\ LET ids == UnscoredIds(docs, "filter_score")
       IN  IF ids # <<>>
           THEN \E responses \in BatchResponses(Len(ids), FilterValues) :
                   /\ docs' = FilterResult(docs, responses)
                   /\ judged_irrelevant' =
                         IF track
                         THEN judged_irrelevant \cup ScoredIrrelevant(docs, responses)
                         ELSE judged_irrelevant
                   /\ \E n \in ResultCounts(Len(ids), responses) :
                         batch' = [node |-> "filter_docs", nin |-> Len(ids),
                                   nres |-> n]
           ELSE /\ docs' = FilterResult(docs, <<>>)
                /\ batch' = NoBatch
                /\ UNCHANGED judged_irrelevant
    /\ pc' = Edge(pc)
    /\ UNCHANGED <<job_requirements, plan, verification, rating,
                   retrieve_decision, iteration, done, search_query,
                   call, error, task,
                   verified, fanout, workerVars, toolVars>>

filter_docs == filter_docs_with(FALSE)

filter_docs_tracked == filter_docs_with(TRUE)

generate_plan ==
    /\ pc = "generate_plan"
    /\ call' = [target |-> "plan_chain",
                args |-> <<job_requirements, DocsText(docs)>>]
    /\ \E p \in PlanTexts : plan' = p
    /\ pc' = Edge(pc)
    /\ UNCHANGED <<job_requirements, docs, verification, rating,
                   retrieve_decision, iteration, done, search_query, batch,
                   error, task, judged_irrelevant,
                   verified, fanout, workerVars, toolVars>>

\* the writes and the aggregation of verify_plan_support, given the batch result
VerifyWith(ids, responses) ==
    LET written == ZipWrite(docs, "verify_score", ids, responses)
        overall == Overall(VerifyScores(written))
    IN  /\ docs' = written
        /\ IF overall = "TypeError"
           THEN /\ pc' = "aborted"
                /\ error' = "TypeError"
                /\ UNCHANGED verification
           ELSE /\ pc' = Edge(pc)
                /\ verification' = overall
                /\ UNCHANGED error

\* ids that get a verify_score from this batch result
ScoredIds(ids, responses) ==
    { ids[k] : k \in { j \in DOMAIN ids : j <= Len(responses) } }

\* verify_plan_support; verified is a history of the ids that have been given a
\* verify_score, which the program does not keep: it is recorded only when
\* track is TRUE
verify_plan_support_with(track) ==
    /\ pc = "verify_plan_support"
    /\ LET ids == UnscoredIds(docs, "verify_score")
       IN  IF ids # <<>>
           THEN \E responses \in BatchResponses(Len(ids), VerifyValues) :
                   /\ VerifyWith(ids, responses)
                   /\ verified' = IF track
                                  THEN verified \cup ScoredIds(ids, responses)
                                  ELSE verified
                   /\ \E n \in ResultCounts(Len(ids), responses) :
                         batch' = [node |-> "verify_plan_support",
                                   nin |-> Len(ids), nres |-> n]
           ELSE /\ VerifyWith(<<>>, <<>>)
                /\ batch' = NoBatch
                /\ UNCHANGED verified
    /\ UNCHANGED <<job_requirements, plan, rating, retrieve_decision,
                   iteration, done, search_query, call, task, judged_irrelevant,
                   fanout, workerVars, toolVars>>

verify_plan_support == verify_plan_support_with(FALSE)

verify_plan_support_tracked == verify_plan_support_with(TRUE)

\* what the chat model can answer to the rating prompt
RawRatings == (RatingMin - 1)..(RatingMax + 1)

\* variant: the le=5 constraint is missing
ValidRating_no_upper(r) == r >= RatingMin

\* PlanRating: rating: int = Field(..., ge=1, le=5)
ValidRating(r) == r >= RatingMin /\ r <= RatingMax

\* rate_plan; with_structured_output(PlanRating) raises on an answer that
\* PlanRating does not validate, and no node catches it
rate_plan ==
    /\ pc = "rate_plan"
    /\ call' = [target |-> "rating_chain", args |-> <<job_requirements, plan>>]
    /\ \E r \in RawRatings :
          IF ValidRating(r)
          THEN /\ rating' = r
               /\ pc' = Edge(pc)
               /\ UNCHANGED error
          ELSE /\ error' = "OutputParserException"
               /\ pc' = "aborted"
               /\ UNCHANGED rating
    /\ UNCHANGED <<job_requirements, docs, plan, verification,
                   retrieve_decision, iteration, done, search_query, batch,
                   task, judged_irrelevant,
                   verified, fanout, workerVars, toolVars>>

decide_retrieve ==
    /\ pc = "decide_retrieve"
    /\ call' = [target |-> "decision_chain", args |-> <<job_requirements, plan>>]
    /\ \E d \in Decisions : retrieve_decision' = d
    /\ pc' = Edge(pc)
    /\ UNCHANGED <<job_requirements, docs, plan, verification, rating,
                   iteration, done, search_query, batch, error, task, judged_irrelevant,
                   verified, fanout, workerVars, toolVars>>

BranchFrame ==
    UNCHANGED <<job_requirements, docs, plan, verification, rating,
                retrieve_decision, iteration, search_query, batch,
                call, error, task, judged_irrelevant,
                   verified, fanout, workerVars, toolVars>>

\* variant: > instead of >= in the iteration test
branch_decide_gt ==
    /\ pc = "branch_decide"
    /\ IF iteration > MAX_ITERATIONS
       THEN pc' = "END" /\ UNCHANGED done
       ELSE IF verification = "fully supported" /\ rating >= AcceptRating
       THEN pc' = "END" /\ done' = TRUE
       ELSE IF retrieve_decision = "yes"
       THEN pc' = "summarize_question" /\ UNCHANGED done
       ELSE pc' = "END" /\ UNCHANGED done
    /\ BranchFrame

\* variant: or instead of and in the acceptance test
branch_decide_or ==
    /\ pc = "branch_decide"
    /\ IF iteration >= MAX_ITERATIONS
       THEN pc' = "END" /\ UNCHANGED done
       ELSE IF verification = "fully supported" \/ rating >= AcceptRating
       THEN pc' = "END" /\ done' = TRUE
       ELSE IF retrieve_decision = "yes"
       THEN pc' = "summarize_question" /\ UNCHANGED done
       ELSE pc' = "END" /\ UNCHANGED done
    /\ BranchFrame

\* variant: the acceptance test comes before the iteration test
branch_decide_accept_first ==
    /\ pc = "branch_decide"
    /\ IF verification = "fully supported" /\ rating >= AcceptRating
       THEN pc' = "END" /\ done' = TRUE
       ELSE IF iteration >= MAX_ITERATIONS
       THEN pc' = "END" /\ UNCHANGED done
       ELSE IF retrieve_decision = "yes"
       THEN pc' = "summarize_question" /\ UNCHANGED done
       ELSE pc' = "END" /\ UNCHANGED done
    /\ BranchFrame

\* variant: the last line loops whatever retrieve_decision is
branch_decide_always_loop ==
    /\ pc = "branch_decide"
    /\ IF iteration >= MAX_ITERATIONS
       THEN pc' = "END" /\ UNCHANGED done
       ELSE IF verification = "fully supported" /\ rating >= AcceptRating
       THEN pc' = "END" /\ done' = TRUE
       ELSE pc' = "summarize_question" /\ UNCHANGED done
    /\ BranchFrame

\* variant: the fall-through END also marks the plan accepted
branch_decide_done_on_no ==
    /\ pc = "branch_decide"
    /\ IF iteration >= MAX_ITERATIONS
       THEN pc' = "END" /\ UNCHANGED done
       ELSE IF verification = "fully supported" /\ rating >= AcceptRating
       THEN pc' = "END" /\ done' = TRUE
       ELSE IF retrieve_decision = "yes"
       THEN pc' = "summarize_question" /\ UNCHANGED done
       ELSE pc' = "END" /\ done' = TRUE
    /\ BranchFrame

\* variant: reaching the maximum also marks the plan accepted
branch_decide_done_at_max ==
    /\ pc = "branch_decide"
    /\ IF iteration >= MAX_ITERATIONS
       THEN pc' = "END" /\ done' = TRUE
       ELSE IF verification = "fully supported" /\ rating >= AcceptRating
       THEN pc' = "END" /\ done' = TRUE
       ELSE IF retrieve_decision = "yes"
       THEN pc' = "summarize_question" /\ UNCHANGED done
       ELSE pc' = "END" /\ UNCHANGED done
    /\ BranchFrame

branch_decide ==
    /\ pc = "branch_decide"
    /\ IF iteration >= MAX_ITERATIONS
       THEN pc' = "END" /\ UNCHANGED done
       ELSE IF verification = "fully supported" /\ rating >= AcceptRating
       THEN pc' = "END" /\ done' = TRUE
       ELSE IF retrieve_decision = "yes"
       THEN pc' = "summarize_question" /\ UNCHANGED done
       ELSE pc' = "END" /\ UNCHANGED done
    /\ BranchFrame

CallFrame ==
    UNCHANGED <<job_requirements, docs, plan, verification, rating,
                retrieve_decision, done, search_query, batch,
                call, task, judged_irrelevant,
                   verified, fanout, workerVars, toolVars>>

\* what a node has assigned when its call is made: retrieve_docs stores the
\* incremented iteration before it calls the retriever
BeforeCall(node, it) == IF node = "retrieve_docs" THEN it + 1 ELSE it

\* variant: the node catches the exception and the graph goes on
call_fails_swallowed ==
    /\ pc \in Nodes
    /\ error' = "CallError"
    /\ iteration' = BeforeCall(pc, iteration)
    /\ pc' = Edge(pc)
    /\ CallFrame

\* a chain.invoke / chain.batch / retriever call raises: no node catches it
call_fails ==
    /\ pc \in Nodes
    /\ error' = "CallError"
    /\ iteration' = BeforeCall(pc, iteration)
    /\ pc' = "aborted"
    /\ CallFrame

\* "Build the final Task": pydantic raises ValidationError when a field
\* without a default gets no argument, otherwise the Task is returned
build_task ==
    /\ pc = "END"
    /\ task = "None"
    /\ error = "none"
    /\ IF TaskRequired \subseteq TaskKwargs
       THEN task' = FinalTask(plan, docs) /\ UNCHANGED error
       ELSE error' = "ValidationError" /\ UNCHANGED task
    /\ UNCHANGED <<pc, job_requirements, docs, plan, verification, rating,
                   retrieve_decision, iteration, done, search_query, batch,
                   call, judged_irrelevant,
                   verified, fanout, workerVars, toolVars>>

Next ==
    \/ summarize_question
    \/ retrieve_docs
    \/ filter_docs
    \/ generate_plan
    \/ verify_plan_support
    \/ rate_plan
    \/ decide_retrieve
    \/ branch_decide
    \/ call_fails
    \/ build_task

Spec == Init /\ [][Next]_vars

\* the same runs, with the history of the ids scored "irrelevant"
NextTracked ==
    \/ summarize_question
    \/ retrieve_docs
    \/ filter_docs_tracked
    \/ generate_plan
    \/ verify_plan_support
    \/ rate_plan
    \/ decide_retrieve
    \/ branch_decide
    \/ call_fails
    \/ build_task

TrackSpec == Init /\ [][NextTracked]_vars

\* the runs on an empty requirements text
EmptySpec == InitEmpty /\ [][Next]_vars

\* the runs in which every chain and retriever call returns, a batch call with
\* one result per input
filter_docs_returns == filter_docs /\ batch'.nin = batch'.nres

verify_plan_support_returns == verify_plan_support /\ batch'.nin = batch'.nres

\* the rating chain returns a PlanRating
rate_plan_returns == rate_plan /\ error' = error

NextReturns ==
    \/ summarize_question
    \/ retrieve_docs
    \/ filter_docs_returns
    \/ generate_plan
    \/ verify_plan_support_returns
    \/ rate_plan_returns
    \/ decide_retrieve
    \/ branch_decide
    \/ build_task

\* compiled_graph.invoke runs the pending node until the graph reaches END
LiveSpec == Init /\ [][NextReturns]_vars /\ WF_vars(NextReturns)

\* the same runs, with the history of the ids that were given a verify_score
NextVerified ==
    \/ summarize_question
    \/ retrieve_docs
    \/ filter_docs
    \/ generate_plan
    \/ verify_plan_support_tracked
    \/ rate_plan
    \/ decide_retrieve
    \/ branch_decide
    \/ call_fails
    \/ build_task

VerifiedSpec == Init /\ [][NextVerified]_vars

(* ------------------- chain.batch, one call per input ------------------ *)

\* the score field and the answers of the chain a node calls
BatchField(node) ==
    IF node = "filter_docs" THEN "filter_score" ELSE "verify_score"

BatchValues(node) ==
    IF node = "filter_docs" THEN FilterValues ELSE VerifyValues

Returned(completed) == { completed[j].idx : j \in DOMAIN completed }

\* variant: the results are collected as the calls complete
BatchResults_completion_order(completed) ==
    [i \in 1..Len(completed) |-> completed[i].value]

\* the list chain.batch returns: the i-th item is the answer to the i-th input
BatchResults(completed) ==
    [i \in 1..Len(completed) |->
        completed[CHOOSE j \in DOMAIN completed : completed[j].idx = i].value]

\* the unscored docs are collected and chain.batch(unscored_inputs) is entered
batch_dispatch ==
    /\ pc \in {"filter_docs", "verify_plan_support"}
    /\ fanout = NoFanout
    /\ UnscoredIds(docs, BatchField(pc)) # <<>>
    /\ fanout' = [node |-> pc, ids |-> UnscoredIds(docs, BatchField(pc)),
                  completed |-> <<>>]
    /\ UNCHANGED <<pc, job_requirements, docs, plan, verification, rating,
                   retrieve_decision, iteration, done, search_query, batch,
                   call, error, task, judged_irrelevant, verified,
                   workerVars, toolVars>>

\* one of the calls of the batch returns its classification
batch_call_returns ==
    /\ fanout.node = pc
    /\ \E k \in DOMAIN fanout.ids \ Returned(fanout.completed) :
          \E v \in BatchValues(pc) :
             fanout' = [fanout EXCEPT
                           !.completed = Append(@, [idx |-> k, value |-> v])]
    /\ UNCHANGED <<pc, job_requirements, docs, plan, verification, rating,
                   retrieve_decision, iteration, done, search_query, batch,
                   call, error, task, judged_irrelevant, verified,
                   workerVars, toolVars>>

AllReturned == Returned(fanout.completed) = DOMAIN fanout.ids

\* chain.batch returns; the zip loop, the dict comprehension and the edge
filter_docs_join ==
    /\ pc = "filter_docs"
    /\ fanout.node = pc
    /\ AllReturned
    /\ LET responses == BatchResults(fanout.completed)
       IN  /\ docs' = Retained(ZipWrite(docs, "filter_score", fanout.ids, responses))
           /\ batch' = [node |-> pc, nin |-> Len(fanout.ids),
                        nres |-> Len(responses)]
    /\ fanout' = NoFanout
    /\ pc' = Edge(pc)
    /\ UNCHANGED <<job_requirements, plan, verification, rating,
                   retrieve_decision, iteration, done, search_query,
                   call, error, task, judged_irrelevant, verified,
                   workerVars, toolVars>>

\* chain.batch returns; the zip loop, the aggregation and the edge
verify_plan_support_join ==
    /\ pc = "verify_plan_support"
    /\ fanout.node = pc
    /\ AllReturned
    /\ LET responses == BatchResults(fanout.completed)
       IN  /\ VerifyWith(fanout.ids, responses)
           /\ batch' = [node |-> pc, nin |-> Len(fanout.ids),
                        nres |-> Len(responses)]
    /\ fanout' = NoFanout
    /\ UNCHANGED <<job_requirements, plan, rating, retrieve_decision,
                   iteration, done, search_query, call, task,
                   judged_irrelevant, verified, workerVars, toolVars>>

\* nothing is unscored: no batch call is made
filter_docs_no_batch ==
    /\ UnscoredIds(docs, "filter_score") = <<>>
    /\ filter_docs

verify_plan_support_no_batch ==
    /\ UnscoredIds(docs, "verify_score") = <<>>
    /\ verify_plan_support

NextBatch ==
    \/ summarize_question
    \/ retrieve_docs
    \/ batch_dispatch
    \/ batch_call_returns
    \/ filter_docs_join
    \/ filter_docs_no_batch
    \/ generate_plan
    \/ verify_plan_support_join
    \/ verify_plan_support_no_batch
    \/ rate_plan
    \/ decide_retrieve
    \/ branch_decide
    \/ call_fails
    \/ build_task

\* the runs with the calls of a batch as separate steps
BatchSpec == Init /\ [][NextBatch]_vars

(* ------------------------------ Worker -------------------------------- *)

TaskIds == 1..MaxTaskId

\* the objects process_task is given: attributes id, details and state
WorkerTasks == [id : TaskIds, details : {"plan text"}, state : {"PENDING"}]

\* Worker.plan
WorkerPlan == <<"Step 1: Initialize job setup", "Step 2: Configure job parameters",
                "Step 3: Submit job to Databricks">>

\* the tasks table: rows (id, state), id is the primary key
HasRow(table, id) == \E row \in table : row.id = id

\* variant: the row is inserted without looking for an existing one
UpdateTaskState_insert_only(table, id, state) ==
    table \cup {[id |-> id, state |-> state]}

\* StateDatabase.update_task_state: SELECT, then UPDATE or INSERT
UpdateTaskState(table, id, state) ==
    IF HasRow(table, id)
    THEN { IF row.id = id THEN [row EXCEPT !.state = state] ELSE row : row \in table }
    ELSE table \cup {[id |-> id, state |-> state]}

\* the lines MarkdownManager.write_update writes for a task, one per f.write
EntryLines(t) ==
    << [text |-> "## Task ", value |-> t.id],
       [text |-> "- **Details:** ", value |-> t.details],
       [text |-> "- **State:** ", value |-> t.state],
       [text |-> "", value |-> ""] >>

TaskStates == {"PENDING", "COMPLETE"}

\* the tables a state database file can hold when the Worker starts
Tables ==
    { table \in SUBSET [id : TaskIds, state : TaskStates] :
        \A r1, r2 \in table : r1.id = r2.id => r1 = r2 }

\* a call of update_task_state or write_update, as the callee sees it; ok is
\* FALSE when the call did not run to its end
Called(op, id, state, ok) == [op |-> op, id |-> id, state |-> state, ok |-> ok]

\* Worker.validate: return True
Validate(t) == TRUE

WorkerInit ==
    /\ \E requirements \in Requirements : InitState(requirements)
    /\ ToolIdle
    /\ w_pc = "idle"
    /\ w_task = "None"
    /\ w_valid = "None"
    /\ w_plan = <<>>
    /\ w_step = 0
    /\ w_count = 0
    /\ db \in Tables
    /\ log = <<>>
    /\ calls = <<>>

\* variant: plan is entered without asking validate
process_task_skips_validate ==
    /\ w_pc \in {"idle", "completed", "rejected"}
    /\ w_count < MaxTasks
    /\ \E t \in WorkerTasks : w_task' = t
    /\ w_count' = w_count + 1
    /\ w_pc' = "plan"
    /\ w_valid' = "None"
    /\ w_plan' = <<>>
    /\ w_step' = 0
    /\ calls' = <<>>
    /\ UNCHANGED <<db, log, leadVars, toolVars>>

\* process_task(task) is called; calls is the history of what this call of
\* process_task has asked of the state database and the markdown manager
process_task ==
    /\ w_pc \in {"idle", "completed", "rejected"}
    /\ w_count < MaxTasks
    /\ \E t \in WorkerTasks : w_task' = t
    /\ w_count' = w_count + 1
    /\ w_pc' = "validate"
    /\ w_valid' = "None"
    /\ w_plan' = <<>>
    /\ w_step' = 0
    /\ calls' = <<>>
    /\ UNCHANGED <<db, log, leadVars, toolVars>>

\* if self.validate(task): ... else: print(... failed validation)
validate ==
    /\ w_pc = "validate"
    /\ w_valid' = IF Validate(w_task) THEN "True" ELSE "False"
    /\ w_pc' = IF Validate(w_task) THEN "plan" ELSE "rejected"
    /\ UNCHANGED <<w_task, w_plan, w_step, w_count, db, log, calls,
                   leadVars, toolVars>>

worker_plan ==
    /\ w_pc = "plan"
    /\ w_plan' = WorkerPlan
    /\ w_pc' = "apply"
    /\ UNCHANGED <<w_task, w_valid, w_step, w_count, db, log, calls,
                   leadVars, toolVars>>

\* the for-loop of apply: one step of the plan is executed
apply_step ==
    /\ w_pc = "apply"
    /\ w_step < Len(w_plan)
    /\ w_step' = w_step + 1
    /\ UNCHANGED <<w_pc, w_task, w_valid, w_plan, w_count, db, log, calls,
                   leadVars, toolVars>>

\* variant: the state is stored before the steps are executed
update_task_state_early ==
    /\ w_pc = "apply"
    /\ w_step = 0
    /\ db' = UpdateTaskState(db, w_task.id, "COMPLETE")
    /\ calls' = Append(calls, Called("update_task_state", w_task.id, "COMPLETE", TRUE))
    /\ w_pc' = "write_update"
    /\ UNCHANGED <<w_task, w_valid, w_plan, w_step, w_count, log,
                   leadVars, toolVars>>

\* self.state_db.update_task_state(task.id, "COMPLETE")
update_task_state ==
    /\ w_pc = "apply"
    /\ w_step = Len(w_plan)
    /\ db' = UpdateTaskState(db, w_task.id, "COMPLETE")
    /\ calls' = Append(calls, Called("update_task_state", w_task.id, "COMPLETE", TRUE))
    /\ w_pc' = "write_update"
    /\ UNCHANGED <<w_task, w_valid, w_plan, w_step, w_count, log,
                   leadVars, toolVars>>

\* sqlite raises: "with self.conn" rolls back and the exception leaves apply
update_task_state_fails ==
    /\ w_pc = "apply"
    /\ w_step = Len(w_plan)
    /\ calls' = Append(calls, Called("update_task_state", w_task.id, "COMPLETE", FALSE))
    /\ w_pc' = "raised"
    /\ UNCHANGED <<w_task, w_valid, w_plan, w_step, w_count, db, log,
                   leadVars, toolVars>>

\* variant: the file is opened with mode "w"
write_update_truncates ==
    /\ w_pc = "write_update"
    /\ log' = EntryLines(w_task)
    /\ calls' = Append(calls, Called("write_update", w_task.id, w_task.state, TRUE))
    /\ w_pc' = "completed"
    /\ UNCHANGED <<w_task, w_valid, w_plan, w_step, w_count, db,
                   leadVars, toolVars>>

\* self.markdown_manager.write_update(task), then apply returns
write_update ==
    /\ w_pc = "write_update"
    /\ log' = log \o EntryLines(w_task)
    /\ calls' = Append(calls, Called("write_update", w_task.id, w_task.state, TRUE))
    /\ w_pc' = "completed"
    /\ UNCHANGED <<w_task, w_valid, w_plan, w_step, w_count, db,
                   leadVars, toolVars>>

\* variant: write_update has no try/except and the exception leaves apply
write_update_fails_propagates ==
    /\ w_pc = "write_update"
    /\ \E k \in 0..(Len(EntryLines(w_task)) - 1) :
          log' = log \o SubSeq(EntryLines(w_task), 1, k)
    /\ calls' = Append(calls, Called("write_update", w_task.id, w_task.state, FALSE))
    /\ w_pc' = "raised"
    /\ UNCHANGED <<w_task, w_valid, w_plan, w_step, w_count, db,
                   leadVars, toolVars>>

\* open() or one of the f.write calls raises inside write_update: the lines
\* written before it stay in the file, the except clause prints and returns
write_update_fails ==
    /\ w_pc = "write_update"
    /\ \E k \in 0..(Len(EntryLines(w_task)) - 1) :
          log' = log \o SubSeq(EntryLines(w_task), 1, k)
    /\ calls' = Append(calls, Called("write_update", w_task.id, w_task.state, FALSE))
    /\ w_pc' = "completed"
    /\ UNCHANGED <<w_task, w_valid, w_plan, w_step, w_count, db,
                   leadVars, toolVars>>

WorkerNext ==
    \/ process_task
    \/ validate
    \/ worker_plan
    \/ apply_step
    \/ update_task_state
    \/ update_task_state_fails
    \/ write_update
    \/ write_update_fails

WorkerSpec == WorkerInit /\ [][WorkerNext]_vars

\* any caller of StateDatabase.update_task_state
state_db_update ==
    /\ Len(calls) < MaxCalls
    /\ \E id \in TaskIds, state \in TaskStates :
          /\ db' = UpdateTaskState(db, id, state)
          /\ calls' = Append(calls, Called("update_task_state", id, state, TRUE))
    /\ UNCHANGED <<w_pc, w_task, w_valid, w_plan, w_step, w_count, log,
                   leadVars, toolVars>>

StateDbNext == state_db_update

StateDbSpec == WorkerInit /\ [][StateDbNext]_vars

(* ------------------------ UnityCatalogToolkit ------------------------- *)

\* a full name is a stem that does not end in "_sql" followed by sql copies
\* of "_sql"
FuncNames == [stem : {"cat.sch.f", "cat.sch.g"}, sql : 0..MaxSuffix]

\* name.endswith("_sql")
EndsWithSql(name) == name.sql > 0

\* name[:-4] if name.endswith("_sql") else name
BaseOf(name) == IF EndsWithSql(name) THEN [name EXCEPT !.sql = @ - 1] ELSE name

GroupIndex(groups, base) ==
    IF \E i \in DOMAIN groups : groups[i].base = base
    THEN CHOOSE i \in DOMAIN groups : groups[i].base = base
    ELSE 0

\* variant: the first name seen for a base is never replaced
GroupsPut_first_wins(groups, name) ==
    LET i == GroupIndex(groups, BaseOf(name))
    IN  IF i = 0 THEN Append(groups, [base |-> BaseOf(name), name |-> name])
        ELSE groups

\* one pass of the loop of _choose_preferred_versions; groups is an
\* insertion-ordered dict base -> name
GroupsPut(groups, name) ==
    LET i == GroupIndex(groups, BaseOf(name))
    IN  IF i = 0 THEN Append(groups, [base |-> BaseOf(name), name |-> name])
        ELSE IF ~EndsWithSql(groups[i].name) /\ EndsWithSql(name)
        THEN [groups EXCEPT ![i].name = name]
        ELSE groups

RECURSIVE BuildGroups(_, _)
BuildGroups(groups, functions) ==
    IF functions = <<>> THEN groups
    ELSE BuildGroups(GroupsPut(groups, Head(functions)), Tail(functions))

\* _choose_preferred_versions: list(groups.values())
ChoosePreferredVersions(functions) ==
    LET groups == BuildGroups(<<>>, functions)
    IN  [i \in DOMAIN groups |-> groups[i].name]

\* what client.list_functions can return
FunctionLists == UNION { [1..n -> FuncNames] : n \in 0..MaxFuncs }

ToolInit ==
    /\ \E requirements \in Requirements : InitState(requirements)
    /\ WorkerIdle
    /\ uc_pc = "idle"
    /\ uc_functions \in FunctionLists
    /\ uc_result = "None"
    /\ ExpandIdle
    /\ CacheIdle

choose_preferred_versions ==
    /\ uc_pc = "idle"
    /\ uc_result' = ChoosePreferredVersions(uc_functions)
    /\ uc_pc' = "returned"
    /\ UNCHANGED <<uc_functions, expandVars, cacheVars, leadVars, workerVars>>

ToolNext == choose_preferred_versions

ToolSpec == ToolInit /\ [][ToolNext]_vars

(* --------------------- _expand_function_names ------------------------- *)

\* the wildcard specifications tried: the supported one, and ones with too
\* few parts, with the star inside the last part and with a star as schema
WildStems == {"cat.sch.*", "cat.*", "cat.sch.f*", "cat.*.*"}

\* what a caller can put into function_names: full names and wildcards
NameSpecs == FuncNames \cup [stem : WildStems, sql : {0}]

NameLists == UNION { [1..n -> NameSpecs] : n \in 0..MaxNames }

\* name.split("."); the "_sql" copies are part of the last element
Split(name) ==
    CASE name.stem = "cat.sch.f"  -> <<"cat", "sch", "f">>
      [] name.stem = "cat.sch.g"  -> <<"cat", "sch", "g">>
      [] name.stem = "cat.sch.*"  -> <<"cat", "sch", "*">>
      [] name.stem = "cat.*"      -> <<"cat", "*">>
      [] name.stem = "cat.sch.f*" -> <<"cat", "sch", "f*">>
      [] name.stem = "cat.*.*"    -> <<"cat", "*", "*">>

\* "*" in name
HasStar(name) == \E i \in DOMAIN Split(name) : Split(name)[i] \in {"*", "f*"}

\* name.endswith(".*")
EndsWithDotStar(name) ==
    /\ name.sql = 0
    /\ Len(Split(name)) >= 2
    /\ Split(name)[Len(Split(name))] = "*"

\* the function is registered: client.get_function(name) can return it
Exists(name, functions) == \E i \in DOMAIN functions : functions[i] = name

\* what client.list_functions(catalog, schema) returns when it returns:
\* uc_functions are the functions of cat.sch, no other schema has any
ListFunctions(catalog, schema, functions) ==
    IF catalog = "cat" /\ schema = "sch" THEN functions ELSE <<>>

\* _resolve_function_name; answered: the client's call came back without an
\* exception
ResolveFunctionName(name, answered, functions) ==
    IF EndsWithSql(name) THEN name
    ELSE LET candidate == [name EXCEPT !.sql = 1]
         IN  IF answered /\ Exists(candidate, functions) THEN candidate
             ELSE name

\* list(dict.fromkeys(expanded))
RECURSIVE FromKeys(_, _)
FromKeys(keys, expanded) ==
    IF expanded = <<>> THEN keys
    ELSE FromKeys(IF \E i \in DOMAIN keys : keys[i] = Head(expanded)
                  THEN keys ELSE Append(keys, Head(expanded)),
                  Tail(expanded))

\* the loop of _expand_function_names from the given name on; answered[i]
\* says whether the client call made for the i-th remaining name returns
RECURSIVE ExpandLoop(_, _, _, _)
ExpandLoop(expanded, names, answered, functions) ==
    IF names = <<>>
    THEN [error |-> "none", value |-> FromKeys(<<>>, expanded)]
    ELSE LET name == Head(names)
             parts == Split(name)
         IN  IF HasStar(name)
             THEN IF ~EndsWithDotStar(name)
                  THEN [error |-> "ValueError", value |-> "None"]
                  ELSE IF Len(parts) # 3
                  THEN [error |-> "ValueError", value |-> "None"]
                  ELSE IF ~Head(answered)
                  THEN [error |-> "ClientError", value |-> "None"]
                  ELSE ExpandLoop(
                         expanded \o ChoosePreferredVersions(
                             ListFunctions(parts[1], parts[2], functions)),
                         Tail(names), Tail(answered), functions)
             ELSE ExpandLoop(
                    Append(expanded,
                           ResolveFunctionName(name, Head(answered), functions)),
                    Tail(names), Tail(answered), functions)

ExpandFunctionNames(names, answered, functions) ==
    ExpandLoop(<<>>, names, answered, functions)

ExpandInit ==
    /\ \E requirements \in Requirements : InitState(requirements)
    /\ WorkerIdle
    /\ uc_pc = "idle"
    /\ uc_functions \in FunctionLists
    /\ uc_result = "None"
    /\ uc_names \in NameLists
    /\ uc_error = "none"
    /\ CacheIdle

expand_function_names ==
    /\ uc_pc = "idle"
    /\ \E answered \in [DOMAIN uc_names -> BOOLEAN] :
          LET r == ExpandFunctionNames(uc_names, answered, uc_functions)
          IN  /\ uc_result' = r.value
              /\ uc_error' = r.error
              /\ uc_pc' = IF r.error = "none" THEN "returned" ELSE "raised"
    /\ UNCHANGED <<uc_functions, uc_names, cacheVars, leadVars, workerVars>>

ExpandNext == expand_function_names

ExpandSpec == ExpandInit /\ [][ExpandNext]_vars

(* ----------------------- get_tool, invoke_tool ------------------------ *)

\* the tool names requested: a function and its "_sql" version
ToolNames == { n \in FuncNames : n.stem = "cat.sch.f" /\ n.sql <= 1 }

RECURSIVE SumOver(_, _)
SumOver(count, names) ==
    IF names = {} THEN 0
    ELSE LET n == CHOOSE n \in names : TRUE
         IN  count[n] + SumOver(count, names \ {n})

Total(count) == SumOver(count, DOMAIN count)

\* _tool_cache[tool_name], 0 when tool_name is not a key; _tool_cache is a
\* set of entries [name, tool] with one entry per name
CacheGet(cache, tool_name) ==
    IF \E e \in cache : e.name = tool_name
    THEN (CHOOSE e \in cache : e.name = tool_name).tool
    ELSE 0

\* the UnityCatalogTool object the next successful build creates
NewTool == Total(uc_builds) + 1

\* uc_function_to_langchain_tool(function_name=tool_name): get_function is
\* called and a tool is made of what it returns; the first four conjuncts
\* of both variants below
Build(tool_name, found) ==
    /\ uc_lookups' = [uc_lookups EXCEPT ![tool_name] = @ + 1]
    /\ IF found
       THEN /\ uc_builds' = [uc_builds EXCEPT ![tool_name] = @ + 1]
            /\ uc_cache' = { e \in uc_cache : e.name # tool_name }
                              \cup {[name |-> tool_name, tool |-> NewTool]}
            /\ uc_tool' = NewTool
       ELSE /\ UNCHANGED <<uc_builds, uc_cache>>
            /\ uc_tool' = 0

\* variant: get_tool without the test "tool_name not in self._tool_cache"
GetTool_no_cache_test(tool_name, answered) ==
    Build(tool_name, answered /\ Exists(tool_name, uc_functions))

\* get_tool up to its return (uc_tool' is the tool) or the exception that
\* leaves it (uc_tool' = 0); answered: get_function came back without an
\* exception
GetTool(tool_name, answered) ==
    IF CacheGet(uc_cache, tool_name) = 0
    THEN Build(tool_name, answered /\ Exists(tool_name, uc_functions))
    ELSE /\ uc_tool' = CacheGet(uc_cache, tool_name)
         /\ UNCHANGED <<uc_cache, uc_builds, uc_lookups>>

CacheInit ==
    /\ \E requirements \in Requirements : InitState(requirements)
    /\ WorkerIdle
    /\ uc_pc = "idle"
    /\ uc_functions \in FunctionLists
    /\ uc_result = "None"
    /\ ExpandIdle
    /\ uc_cache = {}
    /\ uc_tool = 0
    /\ uc_request = NoRequest
    /\ uc_asked = [n \in ToolNames |-> 0]
    /\ uc_builds = [n \in ToolNames |-> 0]
    /\ uc_lookups = [n \in ToolNames |-> 0]

get_tool ==
    /\ Total(uc_asked) < MaxRequests
    /\ \E tool_name \in ToolNames, answered \in BOOLEAN :
          /\ GetTool(tool_name, answered)
          /\ uc_asked' = [uc_asked EXCEPT ![tool_name] = @ + 1]
          /\ uc_request' = [op |-> "get_tool", name |-> tool_name]
    /\ uc_pc' = IF uc_tool' = 0 THEN "raised" ELSE "returned"
    /\ uc_error' = IF uc_tool' = 0 THEN "ClientError" ELSE "none"
    /\ uc_result' = "None"
    /\ UNCHANGED <<uc_functions, uc_names, leadVars, workerVars>>

\* invoke_tool: get_tool, then tool.invoke(inputs), which returns the
\* function's output or raises; the output is then unpacked and deserialized
invoke_tool ==
    /\ Total(uc_asked) < MaxRequests
    /\ \E tool_name \in ToolNames, answered \in BOOLEAN :
          /\ GetTool(tool_name, answered)
          /\ uc_asked' = [uc_asked EXCEPT ![tool_name] = @ + 1]
          /\ uc_request' = [op |-> "invoke_tool", name |-> tool_name]
    /\ \E executed \in BOOLEAN :
          IF uc_tool' # 0 /\ executed
          THEN /\ uc_pc' = "returned"
               /\ uc_error' = "none"
               /\ uc_result' = "output"
          ELSE /\ uc_pc' = "raised"
               /\ uc_error' = "ClientError"
               /\ uc_result' = "None"
    /\ UNCHANGED <<uc_functions, uc_names, leadVars, workerVars>>

CacheNext == get_tool \/ invoke_tool

CacheSpec == CacheInit /\ [][CacheNext]_vars

(* ------------------------------ claims -------------------------------- *)

QualityBar == verification = "fully supported" /\ rating >= AcceptRating

\* C1: in every reachable state iteration is in 0..MAX_ITERATIONS, and the
\* nodes that lead into the increment (summarize_question, retrieve_docs) are
\* never about to run when iteration already equals MAX_ITERATIONS.
C1_IterationBounded ==
    /\ iteration \in 0..MAX_ITERATIONS
    /\ pc \in {"summarize_question", "retrieve_docs"} => iteration < MAX_ITERATIONS

C1_Witness == pc = "END" /\ iteration = MAX_ITERATIONS

\* C2: done is true only after the accepted branch, where the verification is
\* "fully supported" and the rating is at least 4; the only step that turns
\* done to true is that branch of branch_decide.
C2_DoneOnlyWhenAccepted ==
    /\ [](done => pc = "END" /\ verification = "fully supported"
                  /\ rating >= AcceptRating)
    /\ [][(~done /\ done') =>
            (pc = "branch_decide" /\ pc' = "END"
             /\ verification = "fully supported" /\ rating >= AcceptRating)]_vars

C2_Witness == done /\ pc = "END" /\ rating = AcceptRating

\* C3: when branch_decide runs with iteration >= MAX_ITERATIONS the run ends,
\* whatever verification, rating and retrieve_decision are, and done stays
\* false (the iteration rule is applied before the acceptance rule).
C3_MaxIterationsTerminates ==
    [][(pc = "branch_decide" /\ iteration >= MAX_ITERATIONS) =>
        (pc' = "END" /\ ~done /\ ~done')]_vars

C3_Witness ==
    /\ pc = "END" /\ iteration = MAX_ITERATIONS
    /\ retrieve_decision = "yes" /\ rating = 3 /\ ~done

\* C4: below MAX_ITERATIONS and without the quality bar, branch_decide loops
\* back to summarize_question exactly when retrieve_decision is "yes"; no
\* other step enters summarize_question.
C4_LoopBackOnlyOnYes ==
    /\ [][(pc = "branch_decide" /\ iteration < MAX_ITERATIONS /\ ~QualityBar) =>
            (pc' = "summarize_question" <=> retrieve_decision = "yes")]_vars
    /\ [][(pc' = "summarize_question" /\ pc # "summarize_question") =>
            (pc = "branch_decide" /\ iteration < MAX_ITERATIONS /\ ~QualityBar
             /\ retrieve_decision = "yes")]_vars

C4_Witness ==
    /\ pc = "summarize_question" /\ iteration = 1
    /\ retrieve_decision = "yes" /\ ~QualityBar

\* C5: below MAX_ITERATIONS, without the quality bar and with a decision other
\* than "yes", branch_decide ends the run and done stays false.
C5_NoFurtherRetrievalTerminates ==
    [][(pc = "branch_decide" /\ iteration < MAX_ITERATIONS /\ ~QualityBar
        /\ retrieve_decision # "yes") =>
        (pc' = "END" /\ ~done /\ ~done')]_vars

C5_Witness ==
    /\ pc = "END" /\ iteration < MAX_ITERATIONS /\ retrieve_decision = "no"
    /\ ~QualityBar /\ ~done

\* C6: retrieve_docs leaves every record already in docs as it was (same
\* position, same filter_score and verify_score), also when the retriever
\* returns its id again.
C6_MergeNeverOverwrites ==
    [][(pc = "retrieve_docs" /\ pc' = "filter_docs") =>
        (\A i \in DOMAIN docs : i \in DOMAIN docs' /\ docs'[i] = docs[i])]_vars

\* C7: filter_docs on docs that all have a filter_score makes no batch call
\* and keeps the same retained docs; right after filter_docs a second
\* filter_docs would submit nothing and return the same docs, whatever the
\* model answered.
AllFilterScored(d) == \A i \in DOMAIN d : d[i].filter_score # "None"

C7_FilterIdempotent ==
    /\ [][(pc = "filter_docs" /\ pc' = "generate_plan" /\ AllFilterScored(docs)) =>
            (batch' = NoBatch /\ docs' = Retained(docs)
             /\ Retained(docs') = Retained(docs))]_vars
    /\ [](pc = "generate_plan" =>
            /\ UnscoredIds(docs, "filter_score") = <<>>
            /\ \A responses \in BatchResponses(NumDocIds, FilterValues) :
                  FilterResult(docs, responses) = docs)

C7_Witness ==
    pc = "generate_plan" /\ iteration = 2 /\ batch = NoBatch /\ docs # <<>>

\* C8: once verify_plan_support has completed, verification is the aggregate
\* over the verify_score of all docs: "partially supported" if some doc has
\* "no support", else "fully supported" if there is a doc and all docs have
\* "fully supported", else "partially supported" (so also for no docs).
C8_Aggregate(d) ==
    IF \E i \in DOMAIN d : d[i].verify_score = "no support"
    THEN "partially supported"
    ELSE IF d # <<>> /\ \A i \in DOMAIN d : d[i].verify_score = "fully supported"
    THEN "fully supported"
    ELSE "partially supported"

C8_VerifyAggregation ==
    pc \in {"rate_plan", "decide_retrieve", "branch_decide", "END"} =>
        verification = C8_Aggregate(docs)

\* a doc verified in iteration 1 decides the aggregate of iteration 2
C8_Witness ==
    /\ pc = "rate_plan" /\ iteration = 2 /\ Len(docs) = 2
    /\ batch = [node |-> "verify_plan_support", nin |-> 1, nres |-> 1]
    /\ docs[1].verify_score = "no support"
    /\ docs[2].verify_score = "fully supported"
    /\ verification = "partially supported"

\* C9: a batch call of filter_docs or verify_plan_support that returns a number
\* of results different from the number of inputs aborts the run and writes
\* no score (docs is left as it was).
C9_MismatchAborts ==
    [][(pc \in {"filter_docs", "verify_plan_support"}
        /\ batch'.nin # batch'.nres) =>
        (pc' = "aborted" /\ docs' = docs)]_vars

\* C10: a run starts at summarize_question with empty plan, empty docs and
\* iteration 0; the nodes run in the order summarize, retrieve, filter,
\* generate, verify, rate, decide; after the decision the run goes to
\* summarize_question or END only, and END is entered from nowhere else.
Order == <<"summarize_question", "retrieve_docs", "filter_docs", "generate_plan",
           "verify_plan_support", "rate_plan", "decide_retrieve", "branch_decide">>

C10_Sequential ==
    /\ (pc = "summarize_question" /\ plan = "" /\ docs = <<>> /\ iteration = 0)
    /\ [][(pc' # pc /\ pc' # "aborted") =>
            \/ \E i \in 1..7 : pc = Order[i] /\ pc' = Order[i + 1]
            \/ pc = "branch_decide" /\ pc' \in {"summarize_question", "END"}]_vars
    /\ [](pc = "END" => iteration >= 1 /\ retrieve_decision \in Decisions
                         /\ plan \in PlanTexts /\ rating >= RatingMin)

C10_Witness == pc = "END" /\ iteration = 2 /\ plan = "p2"

\* C11: once a chain or retriever call has raised, the run is aborted: no node
\* and no other step runs afterwards (no retry, no later state), no Task is
\* returned, and the failing step changes neither docs nor plan.
C11_FailureAborts ==
    /\ [](error = "CallError" => pc = "aborted" /\ task = "None")
    /\ [][error = "CallError" => vars' = vars]_vars
    /\ [][(error = "none" /\ error' = "CallError") =>
            (pc \in Nodes /\ docs' = docs /\ plan' = plan
             /\ call' = call /\ batch' = batch)]_vars

C11_Witness ==
    error = "CallError" /\ pc = "aborted" /\ iteration = 2 /\ docs # <<>>

\* C12: the step taken at END returns a Task whose details are the final plan,
\* whose documentation is the page contents of the docs held at END, in dict
\* order, and whose state is PENDING; it raises nothing.
C12_TerminalReturnsTask ==
    [][(pc = "END" /\ task = "None" /\ error = "none") =>
        (/\ error' = "none"
         /\ task' = [id |-> 1, details |-> plan,
                     documentation |-> [i \in DOMAIN docs |-> PageContent(docs[i].id)],
                     state |-> "PENDING"])]_vars

\* C13: from the end of filter_docs until the next retrieve_docs stores its
\* chunks, and at END, every record of docs has filter_score "relevant".
C13_RetainedAreRelevant ==
    pc \in {"generate_plan", "verify_plan_support", "rate_plan", "decide_retrieve",
            "branch_decide", "END", "summarize_question", "retrieve_docs"} =>
        \A i \in DOMAIN docs : docs[i].filter_score = "relevant"

\* two chunks were classified, one of them was not kept
C13_Witness ==
    /\ pc = "generate_plan" /\ Len(docs) = 1
    /\ batch = [node |-> "filter_docs", nin |-> 2, nres |-> 2]

C16_EmptyRequirementsFailFast ==
    job_requirements = "" => (call = NoCall /\ iteration = 0)

C15_Context(d) ==
    LET r == SelectSeq(d, LAMBDA rec : rec.filter_score = "relevant")
    IN  IF Len(r) = 0 THEN <<"No documentation available.">>
        ELSE [i \in 1..Len(r) |-> PageContent(r[i].id)]

C15_PlanContext ==
    [][(pc = "generate_plan" /\ pc' = "verify_plan_support") =>
        (/\ call' = [target |-> "plan_chain",
                     args |-> <<job_requirements, C15_Context(docs)>>]
         /\ plan' \in PlanTexts
         /\ docs' = docs)]_vars

\* chunks 2 and 1 were retrieved in this order and both kept
C15_Witness ==
    /\ pc = "verify_plan_support" /\ iteration = 1
    /\ call = [target |-> "plan_chain",
               args |-> <<job_requirements, <<PageContent(2), PageContent(1)>> >>]

\* C18: when apply has returned, the task object has state COMPLETE and the
\* state line written to the markdown log for it shows COMPLETE.
C18_ApplyCompletesTask ==
    w_pc = "completed" =>
        /\ w_task.state = "COMPLETE"
        /\ calls[Len(calls)].ok =>
               log[Len(log) - 1] = [text |-> "- **State:** ", value |-> "COMPLETE"]

\* C19: the result of _choose_preferred_versions has no duplicates, holds only
\* names of the list, and holds for every base name of the list exactly one
\* name: base + "_sql" when the list contains it, else the base name.
C19_Names == { uc_functions[i] : i \in DOMAIN uc_functions }

C19_Base(n) == IF n.sql > 0 THEN [stem |-> n.stem, sql |-> n.sql - 1] ELSE n

C19_Bases == { C19_Base(n) : n \in C19_Names }

C19_PreferredVersions ==
    uc_pc = "returned" =>
        LET out == { uc_result[i] : i \in DOMAIN uc_result }
        IN  /\ Cardinality(out) = Len(uc_result)
            /\ out \subseteq C19_Names
            /\ \A b \in C19_Bases :
                  LET b_sql == [stem |-> b.stem, sql |-> b.sql + 1]
                  IN  { n \in out : C19_Base(n) = b } =
                         { IF b_sql \in C19_Names THEN b_sql ELSE b }

\* the base version comes first in the list and the "_sql" version replaces it
C19_Witness ==
    /\ uc_pc = "returned"
    /\ uc_functions = << [stem |-> "cat.sch.f", sql |-> 0],
                         [stem |-> "cat.sch.g", sql |-> 0],
                         [stem |-> "cat.sch.f", sql |-> 1] >>
    /\ uc_result = << [stem |-> "cat.sch.f", sql |-> 1],
                      [stem |-> "cat.sch.g", sql |-> 0] >>

\* C20: retrieve_docs queries the retriever with search_query alone in
\* iteration 1 and with search_query, the refinement clause and the current
\* plan in every later iteration, always with k = 10 and hybrid search.
C20_RetrieveQuery ==
    [][(pc = "retrieve_docs" /\ pc' = "filter_docs") =>
        (/\ iteration' = iteration + 1
         /\ call'.target = "retriever"
         /\ call'.args[2] = 10 /\ call'.args[3] = "hybrid"
         /\ iteration' = 1 => call'.args[1] = <<search_query>>
         /\ iteration' > 1 =>
               call'.args[1] = <<search_query, RefineClause, plan>>)]_vars

C20_Witness ==
    /\ pc = "filter_docs" /\ iteration = 2
    /\ call = [target |-> "retriever",
               args |-> << <<"q1", RefineClause, "p2">>, K, "hybrid">>]

\* C21: filter_docs and verify_plan_support submit, in one batch, exactly the
\* docs whose score is None, in dict order; when the batch returns, its i-th
\* result becomes the score of the i-th submitted doc, and a doc that had a
\* score was not submitted and keeps it (filter_docs then keeps the relevant).
C21_Field == IF pc = "filter_docs" THEN "filter_score" ELSE "verify_score"

C21_Rank(i) == Cardinality({ j \in 1..i : docs[j][C21_Field] = "None" })

C21_Written ==
    LET results == BatchResults(fanout.completed)
    IN  [i \in DOMAIN docs |->
            IF docs[i][C21_Field] = "None"
            THEN [docs[i] EXCEPT ![C21_Field] = results[C21_Rank(i)]]
            ELSE docs[i]]

C21_BatchOrder ==
    /\ [][(fanout = NoFanout /\ fanout' # NoFanout) =>
            (/\ pc' = pc /\ docs' = docs
             /\ fanout'.node = pc
             /\ Len(fanout'.ids) = C21_Rank(Len(docs))
             /\ \A i \in DOMAIN docs :
                   docs[i][C21_Field] = "None" =>
                      fanout'.ids[C21_Rank(i)] = docs[i].id)]_vars
    /\ [][(fanout # NoFanout /\ fanout' = NoFanout) =>
            (/\ pc' # pc
             /\ batch' = [node |-> pc, nin |-> Len(fanout.ids),
                          nres |-> Len(fanout.ids)]
             /\ pc = "verify_plan_support" => docs' = C21_Written
             /\ pc = "filter_docs" =>
                   docs' = SelectSeq(C21_Written,
                                     LAMBDA rec : rec.filter_score = "relevant"))]_vars

\* second round: chunk 1 is kept with its scores, chunk 2 is new and was the
\* only one submitted, to filter_chain and then to verify_chain
C21_Witness ==
    /\ pc = "rate_plan" /\ iteration = 2 /\ fanout = NoFanout
    /\ batch = [node |-> "verify_plan_support", nin |-> 1, nres |-> 1]
    /\ docs = << [id |-> 1, filter_score |-> "relevant",
                  verify_score |-> "partially supported"],
                 [id |-> 2, filter_score |-> "relevant",
                  verify_score |-> "fully supported"] >>

\* C22: the calls of a batch return in any order; until all of them have
\* returned no score is written, verification is not set and the run stays in
\* the node; the step that leaves the node is taken with every call returned
\* and stores for each submitted id the answer of the call made for that id,
\* so docs and verification do not depend on the order of completion.
C22_Answer(k) ==
    fanout.completed[CHOOSE j \in DOMAIN fanout.completed :
                        fanout.completed[j].idx = k].value

C22_Scored(field) ==
    [i \in DOMAIN docs |->
        IF \E k \in DOMAIN fanout.ids : fanout.ids[k] = docs[i].id
        THEN [docs[i] EXCEPT ![field] =
                 C22_Answer(CHOOSE k \in DOMAIN fanout.ids :
                               fanout.ids[k] = docs[i].id)]
        ELSE docs[i]]

C22_Overall(d) ==
    IF d # <<>> /\ \A i \in DOMAIN d : d[i].verify_score = "fully supported"
    THEN "fully supported"
    ELSE "partially supported"

C22_JoinBeforeWrite ==
    /\ [][(fanout # NoFanout /\ fanout' # NoFanout) =>
            (docs' = docs /\ verification' = verification
             /\ pc' \in {pc, "aborted"})]_vars
    /\ [][(fanout # NoFanout /\ fanout' = NoFanout) =>
            (/\ { fanout.completed[j].idx : j \in DOMAIN fanout.completed }
                   = 1..Len(fanout.ids)
             /\ Len(fanout.completed) = Len(fanout.ids)
             /\ pc = "filter_docs" =>
                   /\ pc' = "generate_plan"
                   /\ docs' = SelectSeq(C22_Scored("filter_score"),
                                        LAMBDA rec : rec.filter_score = "relevant")
             /\ pc = "verify_plan_support" =>
                   /\ pc' = "rate_plan"
                   /\ docs' = C22_Scored("verify_score")
                   /\ verification' = C22_Overall(docs'))]_vars

\* the call for the second doc has returned before the call for the first
C22_Witness ==
    /\ pc = "verify_plan_support"
    /\ fanout = [node |-> "verify_plan_support", ids |-> <<1, 2>>,
                 completed |-> << [idx |-> 2, value |-> "no support"],
                                  [idx |-> 1, value |-> "fully supported"] >>]

\* C23: a step of a node changes only that node's part of the state dict:
\* summarize_question search_query; retrieve_docs iteration and docs, keeping
\* every key; filter_docs docs; generate_plan plan; verify_plan_support the
\* verify_score fields and verification; rate_plan rating; decide_retrieve
\* retrieve_decision.  job_requirements never changes and a key leaves docs
\* only in filter_docs.
C23_Keys(d) == { d[i].id : i \in DOMAIN d }

C23_Same(names) ==
    /\ "docs" \notin names => docs' = docs
    /\ "plan" \notin names => plan' = plan
    /\ "verification" \notin names => verification' = verification
    /\ "rating" \notin names => rating' = rating
    /\ "retrieve_decision" \notin names => retrieve_decision' = retrieve_decision
    /\ "iteration" \notin names => iteration' = iteration
    /\ "search_query" \notin names => search_query' = search_query
    /\ job_requirements' = job_requirements
    /\ done' = done

C23_FrameEffects ==
    /\ [][pc = "summarize_question" => C23_Same({"search_query"})]_vars
    /\ [][pc = "retrieve_docs" =>
            (C23_Same({"iteration", "docs"})
             /\ C23_Keys(docs) \subseteq C23_Keys(docs'))]_vars
    /\ [][pc = "filter_docs" => C23_Same({"docs"})]_vars
    /\ [][pc = "generate_plan" => C23_Same({"plan"})]_vars
    /\ [][pc = "verify_plan_support" =>
            (/\ C23_Same({"docs", "verification"})
             /\ Len(docs') = Len(docs)
             /\ \A i \in DOMAIN docs :
                   /\ docs'[i].id = docs[i].id
                   /\ docs'[i].filter_score = docs[i].filter_score)]_vars
    /\ [][pc = "rate_plan" => C23_Same({"rating"})]_vars
    /\ [][pc = "decide_retrieve" => C23_Same({"retrieve_decision"})]_vars
    /\ [][job_requirements' = job_requirements]_vars
    /\ [][~(C23_Keys(docs) \subseteq C23_Keys(docs')) => pc = "filter_docs"]_vars

\* every node has run; the second retrieve_docs stored chunk 2 and kept chunk 1
\* with its scores, the second filter_docs removed chunk 2
C23_Witness ==
    /\ pc = "generate_plan" /\ iteration = 2 /\ search_query = "q1"
    /\ plan = "p1" /\ rating = 2 /\ retrieve_decision = "yes"
    /\ batch = [node |-> "filter_docs", nin |-> 1, nres |-> 1]
    /\ docs = << [id |-> 1, filter_score |-> "relevant",
                  verify_score |-> "fully supported"] >>

\* C24: rating is an integer of 0..5 in every state: 0 at the start, changed
\* only by a rate_plan that completes, which stores a value of 1..5; an answer
\* outside 1..5 aborts the run with rating left as it was, and nothing runs
\* after the abort.
C24_RatingRange ==
    /\ rating = 0
    /\ [](rating \in 0..5)
    /\ [](pc \in {"decide_retrieve", "branch_decide", "END"} => rating \in 1..5)
    /\ [][rating' # rating =>
            (pc = "rate_plan" /\ pc' = "decide_retrieve" /\ rating' \in 1..5)]_vars
    /\ [][(pc = "rate_plan" /\ pc' # "decide_retrieve") =>
            (pc' = "aborted" /\ rating' = rating)]_vars
    /\ [][error = "OutputParserException" => vars' = vars]_vars

\* the second rating was out of range: the run is aborted, rating is still the
\* first one
C24_Witness ==
    /\ pc = "aborted" /\ error = "OutputParserException"
    /\ iteration = 2 /\ rating = 5 /\ call.target = "rating_chain"

\* C25: iteration starts at 0, every retrieve_docs that runs adds exactly 1 to
\* it and no other step changes it; so it never decreases and counts the
\* executions of retrieve_docs.
C25_IterationCounts ==
    /\ iteration = 0
    /\ [][pc = "retrieve_docs" => iteration' = iteration + 1]_vars
    /\ [][iteration' # iteration =>
            (pc = "retrieve_docs" /\ iteration' = iteration + 1)]_vars
    /\ [][iteration' >= iteration]_vars

\* the third retrieve_docs has run
C25_Witness ==
    pc = "filter_docs" /\ iteration = 3 /\ call.target = "retriever"

\* C26: verify_plan_support classifies only docs whose verify_score is None,
\* and a doc that was given a verify_score in an earlier round is not
\* classified again: when verify_plan_support is about to run, every doc that
\* has been verified before still has its score.
C26_VerifiedOnce ==
    pc = "verify_plan_support" =>
        \A i \in DOMAIN docs :
            docs[i].id \in verified => docs[i].verify_score # "None"

\* C27: within one process_task the state database is asked at most once and
\* the markdown manager at most once: update_task_state(task.id, "COMPLETE")
\* comes first, after all three plan steps, and write_update(task) only after
\* it has returned; a process_task that has returned made exactly these two
\* calls.
C27_PersistOnce ==
    /\ Len(calls) <= 2
    /\ calls # <<>> =>
          /\ calls[1].op = "update_task_state"
          /\ calls[1].id = w_task.id
          /\ calls[1].state = "COMPLETE"
          /\ w_step = 3
    /\ Len(calls) = 2 =>
          /\ calls[1].ok
          /\ calls[2].op = "write_update"
          /\ calls[2].id = w_task.id
    /\ w_pc = "completed" => Len(calls) = 2
    /\ w_pc = "raised" => (Len(calls) = 1 /\ ~calls[1].ok)

\* the second task has been processed
C27_Witness ==
    /\ w_pc = "completed" /\ w_count = 2 /\ w_step = 3
    /\ calls = << [op |-> "update_task_state", id |-> 2, state |-> "COMPLETE",
                   ok |-> TRUE],
                  [op |-> "write_update", id |-> 2, state |-> "PENDING",
                   ok |-> TRUE] >>

\* C28: plan and apply run only after validate has returned True for the
\* task; after a validate that returns False process_task returns with the
\* state database, the log and the task as they were.
C28_ValidateGate ==
    /\ [](w_pc \in {"plan", "apply", "write_update", "completed", "raised"} =>
            w_valid = "True")
    /\ []((w_plan # <<>> \/ w_step > 0 \/ calls # <<>>) => w_valid = "True")
    /\ [](w_valid = "False" =>
            (w_pc = "rejected" /\ w_plan = <<>> /\ calls = <<>>))
    /\ [][(w_pc = "validate" /\ w_valid' = "False") =>
            (db' = db /\ log' = log /\ w_task' = w_task)]_vars

\* validate has returned True and apply is executing the plan
C28_Witness ==
    w_pc = "apply" /\ w_valid = "True" /\ w_step = 2 /\ w_plan = WorkerPlan

\* C29: after update_task_state(id, s) the table has exactly one row for id,
\* with state s, whether or not it had one before; the rows of the other ids
\* are as before; the same call made again leaves the table as it is.
C29_Upsert ==
    [][calls' # calls =>
        LET c == calls'[Len(calls')]
        IN  /\ { row \in db' : row.id = c.id } = {[id |-> c.id, state |-> c.state]}
            /\ { row \in db' : row.id # c.id } = { row \in db : row.id # c.id }
            /\ (calls # <<>> /\ calls[Len(calls)] = c) => db' = db]_vars

\* an insert, an update of that row, and the same update again
C29_Witness ==
    /\ db = {[id |-> 1, state |-> "COMPLETE"]}
    /\ calls = << [op |-> "update_task_state", id |-> 1, state |-> "PENDING",
                   ok |-> TRUE],
                  [op |-> "update_task_state", id |-> 1, state |-> "COMPLETE",
                   ok |-> TRUE],
                  [op |-> "update_task_state", id |-> 1, state |-> "COMPLETE",
                   ok |-> TRUE] >>

\* C30: the log only grows at its end: every step leaves the lines already in
\* the file in place, only write_update writes, a write_update that runs to
\* its end adds the four lines of the task's entry (id, details, state, blank
\* line) and one that fails adds only a beginning of that entry.
C30_Entry(t) ==
    << [text |-> "## Task ", value |-> t.id],
       [text |-> "- **Details:** ", value |-> t.details],
       [text |-> "- **State:** ", value |-> t.state],
       [text |-> "", value |-> ""] >>

C30_AppendOnly ==
    /\ [][Len(log') >= Len(log) /\ SubSeq(log', 1, Len(log)) = log]_vars
    /\ [][log' # log => w_pc = "write_update"]_vars
    /\ [][(w_pc = "write_update" /\ calls'[Len(calls')].ok) =>
            log' = log \o C30_Entry(w_task)]_vars
    /\ [][(w_pc = "write_update" /\ ~calls'[Len(calls')].ok) =>
            \E k \in 0..3 : log' = log \o SubSeq(C30_Entry(w_task), 1, k)]_vars

\* the entry of task 2, then the entry of task 1
C30_Witness ==
    /\ w_pc = "completed" /\ w_count = 2
    /\ log = C30_Entry([id |-> 2, details |-> "plan text", state |-> "PENDING"])
              \o C30_Entry([id |-> 1, details |-> "plan text", state |-> "PENDING"])

\* C33: done is true only in runs that ended below MAX_ITERATIONS; a run whose
\* branch_decide finds iteration at MAX_ITERATIONS ends with done false also
\* when verification is "fully supported" and the rating is at least 4; done
\* is false at the start and, once true, stays true.
C33_DoneBelowMax ==
    /\ ~done
    /\ [](done => iteration < MAX_ITERATIONS)
    /\ [][(pc = "branch_decide" /\ iteration >= MAX_ITERATIONS
           /\ verification = "fully supported" /\ rating >= 4) =>
            (pc' = "END" /\ ~done')]_vars
    /\ [][done => done']_vars

\* the fifth plan meets the quality bar and is not marked accepted
C33_Witness ==
    /\ pc = "END" /\ iteration = MAX_ITERATIONS /\ ~done
    /\ verification = "fully supported" /\ rating = 5
    /\ task = "None" /\ error = "none"

\* C34: when done is true docs is not empty and every doc in it has
\* verify_score "fully supported".
C34_DoneNeedsSupport ==
    done => (/\ Len(docs) >= 1
             /\ \A i \in DOMAIN docs : docs[i].verify_score = "fully supported")

\* accepted in round 2 on two docs, one of them verified in round 1
C34_Witness ==
    /\ done /\ pc = "END" /\ iteration = 2 /\ Len(docs) = 2
    /\ batch = [node |-> "verify_plan_support", nin |-> 1, nres |-> 1]

\* C35: verification is "" (the initial value), "fully supported" or
\* "partially supported" in every state, never "no support".
C35_NeverNoSupport ==
    verification \in {"", "fully supported", "partially supported"}

\* a doc without support: the overall verification is "partially supported"
C35_Witness ==
    /\ pc = "rate_plan" /\ verification = "partially supported"
    /\ Len(docs) = 2
    /\ \A i \in DOMAIN docs : docs[i].verify_score = "no support"

\* C36: when update_task_state raises, apply is left by the exception: the
\* table and the log are as before and write_update is never called for the
\* task; when write_update fails, apply still returns normally, the table is
\* not changed back and keeps COMPLETE for the task.
C36_NoRollback ==
    /\ [][(w_pc = "apply" /\ w_pc' # "apply" /\ ~calls'[Len(calls')].ok) =>
            (w_pc' = "raised" /\ db' = db /\ log' = log)]_vars
    /\ [][w_pc = "raised" => vars' = vars]_vars
    /\ [](w_pc = "raised" =>
            \A j \in DOMAIN calls : calls[j].op # "write_update")
    /\ [][w_pc = "write_update" =>
            (/\ w_pc' = "completed"
             /\ db' = db
             /\ [id |-> w_task.id, state |-> "COMPLETE"] \in db')]_vars
    /\ [](w_pc = "completed" => [id |-> w_task.id, state |-> "COMPLETE"] \in db)

\* the log could not be opened: task 1 is reported completed, the table says
\* COMPLETE and the log has no entry
C36_Witness ==
    /\ w_pc = "completed" /\ w_task.id = 1 /\ log = <<>>
    /\ Len(calls) = 2 /\ ~calls[2].ok
    /\ [id |-> 1, state |-> "COMPLETE"] \in db

C31_Listed == { uc_functions[i] : i \in DOMAIN uc_functions }

\* 'catalog.schema.*' with a catalog and a schema name
C31_IsWildcard(name) == name.stem = "cat.sch.*" /\ name.sql = 0

C31_IsExplicit(name) == name.stem \in {"cat.sch.f", "cat.sch.g"}

\* the names the claim gives for one specification
C31_Expected(name) ==
    IF C31_IsWildcard(name) THEN ChoosePreferredVersions(uc_functions)
    ELSE IF name.sql = 0 /\ [name EXCEPT !.sql = 1] \in C31_Listed
    THEN <<[name EXCEPT !.sql = 1]>>
    ELSE <<name>>

RECURSIVE C31_Concat(_)
C31_Concat(names) ==
    IF names = <<>> THEN <<>>
    ELSE C31_Expected(Head(names)) \o C31_Concat(Tail(names))

C31_First(seq, x) ==
    CHOOSE i \in DOMAIN seq :
        seq[i] = x /\ \A j \in DOMAIN seq : seq[j] = x => i <= j

\* C31: _expand_function_names returns only when every specification is a
\* full name or a wildcard 'catalog.schema.*'; the list returned has no
\* duplicates, holds exactly the preferred versions of the schema's functions
\* for a wildcard and, for a full name, its "_sql" version when that function
\* exists and the name itself otherwise, in the order of first occurrence;
\* a ValueError leaves no list behind.
C31_ExpandNames ==
    /\ uc_pc = "returned" =>
          LET all == C31_Concat(uc_names)
          IN  /\ \A i \in DOMAIN uc_names :
                    C31_IsWildcard(uc_names[i]) \/ C31_IsExplicit(uc_names[i])
              /\ \A i, j \in DOMAIN uc_result :
                    uc_result[i] = uc_result[j] => i = j
              /\ { uc_result[i] : i \in DOMAIN uc_result } =
                    { all[i] : i \in DOMAIN all }
              /\ \A i, j \in DOMAIN uc_result :
                    i < j => C31_First(all, uc_result[i]) < C31_First(all, uc_result[j])
    /\ (uc_pc = "raised" /\ uc_error = "ValueError") =>
          /\ uc_result = "None"
          /\ \E i \in DOMAIN uc_names :
                ~(C31_IsWildcard(uc_names[i]) \/ C31_IsExplicit(uc_names[i]))

\* the statement as claimed: the first request for a name builds its tool,
\* and once a name has been requested no request builds a tool for it or
\* looks the function up
C32_BuiltOnFirstRequest ==
    /\ [](\A n \in ToolNames : uc_asked[n] >= 1 => uc_builds[n] = 1)
    /\ [][\A n \in ToolNames : uc_asked[n] >= 1 =>
            /\ uc_builds'[n] = uc_builds[n]
            /\ uc_lookups'[n] = uc_lookups[n]]_vars

\* C32: no name ever has more than one tool built; once a request for a name
\* has built and cached its tool, every later request for that name hands out
\* that tool with no build and no get_function call, and the cache entry
\* stays; a request for a name not yet cached looks the function up, and when
\* that raises nothing is cached, so the next request looks it up again.
C32_BuiltOnce ==
    /\ [](\A n \in ToolNames : uc_builds[n] <= 1)
    /\ [][\A n \in ToolNames : CacheGet(uc_cache, n) # 0 =>
            /\ CacheGet(uc_cache', n) = CacheGet(uc_cache, n)
            /\ uc_builds'[n] = uc_builds[n]
            /\ uc_lookups'[n] = uc_lookups[n]
            /\ uc_request'.name = n => uc_tool' = CacheGet(uc_cache, n)]_vars
    /\ [][\A n \in ToolNames :
            (CacheGet(uc_cache, n) = 0 /\ uc_request'.name = n) =>
               /\ uc_lookups'[n] = uc_lookups[n] + 1
               /\ uc_tool' = CacheGet(uc_cache', n)
               /\ uc_builds'[n] = uc_builds[n] + (IF uc_tool' = 0 THEN 0 ELSE 1)]_vars

\* cat.sch.f was requested three times: the first lookup failed, the second
\* request built tool 1, the third, an invoke_tool, got tool 1 from the cache
C32_Witness ==
    LET f == [stem |-> "cat.sch.f", sql |-> 0]
    IN  /\ uc_request = [op |-> "invoke_tool", name |-> f]
        /\ uc_asked[f] = 3 /\ uc_lookups[f] = 2 /\ uc_builds[f] = 1
        /\ uc_tool = 1 /\ uc_cache = {[name |-> f, tool |-> 1]}
        /\ uc_pc = "returned"
====
